---- MODULE Spec2Model ----
(***************************************************************************)
(* A model of the certificate-award celery tasks                           *)
(* (openedx/core/djangoapps/programs/tasks/v1/tasks.py), the               *)
(* manual_verifications management command and the course-author gate of   *)
(* the contentstore course handlers.                                       *)
(***************************************************************************)
EXTENDS Integers, Sequences, FiniteSets, TLC

VARIABLES
    ptask,          \* slot -> the award_program_certificates task in that worker slot
    ctask,          \* the award_course_certificates task
    user_exists,    \* whether a User with the task's username exists
    completed,      \* site -> set of program uuids the student has completed there
    certified,      \* program uuids the credentials service reports for the student
    successPosted,  \* history: program uuids whose award POST has succeeded
    healthy,        \* issuance is enabled and the services have stopped failing
    verifications,  \* the ManualVerification table
    now,            \* the current day
    vrun,           \* run -> an invocation of the manual_verifications command
    course,         \* the course in the modulestore, with its tree of blocks
    request,        \* the last request served by a course handler
    response,       \* its response
    trace,          \* the access checks and modulestore reads made while serving it
    handler         \* the blocks the view has got from the modulestore so far, and
                    \* the reads it has still to make

taskVars == <<ptask, ctask, user_exists, completed, certified, successPosted, healthy>>
verifyVars == <<verifications, now, vrun>>
viewVars == <<course, request, response, trace, handler>>
vars == <<ptask, ctask, user_exists, completed, certified, successPosted, healthy,
          verifications, now, vrun, course, request, response, trace,
          handler>>

----------------------------------------------------------------------------
(* Bounds and program constants *)

MAX_RETRIES_Raised == 11 + 1
MAX_RETRIES == 11

NumPrograms == 2
MaxEmails == 3
MaxDay == 2
MaxOutline == 4
MaxBlocks == 5
DaysGoodFor == 1

Programs == 1..NumPrograms
Sites == {"site1", "site2"}
SiteOrder == <<"site1", "site2">>
Slots == {1, 2}

Modes == {"verified", "credit", "honor"}
VERIFIED_CERTS_MODES == {"verified", "credit"}

----------------------------------------------------------------------------
(* Pure helpers *)

SeqToSet(s) == {s[i] : i \in DOMAIN s}

RECURSIVE Pow2(_)
Pow2(k) == IF k = 0 THEN 1 ELSE 2 * Pow2(k - 1)

RECURSIVE SumSeq(_)
SumSeq(s) == IF s = <<>> THEN 0 ELSE Head(s) + SumSeq(Tail(s))

\* sorted(list(S)): the elements of S in ascending order
RECURSIVE sorted(_)
sorted(S) ==
    IF S = {} THEN <<>>
    ELSE LET m == CHOOSE x \in S : \A y \in S : x <= y
         IN  <<m>> \o sorted(S \ {m})

\* countdown = 2 ** self.request.retries
Countdown_Linear(retries) == 2 * retries + 1
Countdown(retries) == Pow2(retries)

\* get_completed_programs(site, student): the meter's list of completed uuids
get_completed_programs(site) == sorted(completed[site])

\* program_uuids = []; for site in Site.objects.all(): program_uuids.extend(...)
RECURSIVE ExtendOverSites(_)
ExtendOverSites(sites) ==
    IF sites = <<>> THEN <<>>
    ELSE get_completed_programs(Head(sites)) \o ExtendOverSites(Tail(sites))

\* get_certified_programs(student): the uuids of the program credentials
get_certified_programs == sorted(certified)

\* new_program_uuids = sorted(list(set(program_uuids) - set(existing_program_uuids)))
NewProgramUuids_IgnoreExisting(program_uuids, existing_program_uuids) ==
    sorted(SeqToSet(program_uuids))
NewProgramUuids_NoSet(program_uuids, existing_program_uuids) ==
    SelectSeq(program_uuids, LAMBDA p : p \notin SeqToSet(existing_program_uuids))
NewProgramUuids(program_uuids, existing_program_uuids) ==
    sorted(SeqToSet(program_uuids) \ SeqToSet(existing_program_uuids))

----------------------------------------------------------------------------
(* Celery task bookkeeping *)

NewProgramTask ==
    [pc |-> "idle", retries |-> 0, attempt |-> 0, executions |-> 0, delays |-> <<>>,
     countdown |-> 0, enabled |-> TRUE, user_found |-> TRUE, ops |-> {},
     existing |-> {}, prior |-> {}, certified_at_start |-> {},
     planned |-> <<>>, todo |-> <<>>, posts |-> <<>>, results |-> <<>>,
     retry |-> FALSE, outcome |-> "none", path |-> "none"]

NewCourseTask ==
    [pc |-> "idle", retries |-> 0, attempt |-> 0, executions |-> 0, delays |-> <<>>,
     countdown |-> 0, enabled |-> TRUE, user_found |-> TRUE, ops |-> {},
     mode |-> "na", valid |-> FALSE, overview |-> "na", viewable |-> FALSE,
     posts |-> <<>>, outcome |-> "none", path |-> "none"]

\* self.retry(countdown=countdown, max_retries=MAX_RETRIES): celery compares
\* request.retries + 1 with max_retries; beyond it the task fails, otherwise a
\* new execution is scheduled after countdown seconds with retries + 1.
Retry(task, path) ==
    IF task.retries + 1 > MAX_RETRIES
    THEN [task EXCEPT !.pc = "failed", !.outcome = "failed", !.path = path]
    ELSE [task EXCEPT !.pc = "queued", !.retries = @ + 1,
                      !.delays = Append(@, task.countdown),
                      !.outcome = "retry", !.path = path]

\* a return statement, or falling off the end of the task body
Conclude(task, outcome) ==
    [task EXCEPT !.pc = "done", !.outcome = outcome, !.path = "none"]

\* if not CredentialsApiConfig.current().is_learner_issuance_enabled: raise self.retry(...)
OnIssuanceDisabled_Conclude(task) == Conclude(task, "disabled")
OnIssuanceDisabled(task) == Retry(task, "disabled")

\* except User.DoesNotExist: ... return
OnMissingUser_Retry(task) == Retry(task, "lookup")
OnMissingUser(task) == Conclude(task, "no_user")

\* except Exception as exc: raise self.retry(exc=exc, ...)
OnException(task, path) == Retry(task, path)

----------------------------------------------------------------------------
(* award_program_certificates *)

\* award_program_certificates.delay(username)
apply_program_task(t) ==
    /\ ptask[t].pc \in {"done", "failed"}
    /\ ptask' = [ptask EXCEPT ![t] = [NewProgramTask EXCEPT !.pc = "queued"]]
    /\ UNCHANGED <<ctask, user_exists, completed, certified, successPosted>>
    /\ UNCHANGED <<healthy, verifyVars, viewVars>>

\* if not program_uuids: ... return (before get_certified_programs is called)
OnNoCompletedPrograms_AfterQuery(task) ==
    Conclude([task EXCEPT !.ops = @ \cup {"certified"}], "no_programs")
OnNoCompletedPrograms(task) == Conclude(task, "no_programs")

\* Lines 135-189: from the start of an execution to the creation of the client
ProgramExecution(task, enabled, fail) ==
    LET started == [task EXCEPT !.executions = @ + 1,
                                !.attempt = task.retries,
                                !.countdown = Countdown(task.retries),
                                !.enabled = enabled,
                                !.user_found = FALSE,
                                !.ops = {"config"},
                                !.existing = {},
                                !.prior = successPosted,
                                !.certified_at_start = certified,
                                !.planned = <<>>,
                                !.todo = <<>>,
                                !.posts = <<>>,
                                !.results = <<>>,
                                !.retry = FALSE]
        looked == [started EXCEPT !.ops = @ \cup {"user"}, !.user_found = user_exists]
        metered == [looked EXCEPT !.ops = @ \cup {"completed"}]
        program_uuids == ExtendOverSites(SiteOrder)
        read == [metered EXCEPT !.ops = @ \cup {"certified"}]
        existing_program_uuids == get_certified_programs
        new_program_uuids == NewProgramUuids(program_uuids, existing_program_uuids)
        known == [read EXCEPT !.existing = SeqToSet(existing_program_uuids)]
        client == [known EXCEPT !.ops = @ \cup {"client"}]
    IN  IF ~enabled THEN OnIssuanceDisabled(started)
        ELSE IF ~user_exists THEN OnMissingUser(looked)
        ELSE IF fail = "completed" THEN OnException(metered, "lookup")
        ELSE IF program_uuids = <<>> THEN OnNoCompletedPrograms(metered)
        ELSE IF fail = "certified" THEN OnException(read, "lookup")
        ELSE IF new_program_uuids = <<>> THEN Conclude(known, "success")
        ELSE IF fail = "client" THEN OnException(client, "client")
        ELSE [client EXCEPT !.pc = "posting", !.planned = new_program_uuids,
                            !.todo = new_program_uuids,
                            !.outcome = "running", !.path = "none"]

\* What an execution can meet: CredentialsApiConfig may have issuance off, and
\* the calls of lines 157-189 may raise; once the services are healthy they
\* do neither.
IssuanceStates == IF healthy THEN {TRUE} ELSE BOOLEAN
LookupFaults == IF healthy THEN {"none"} ELSE {"none", "completed", "certified", "client"}

award_program_certificates(t) ==
    /\ ptask[t].pc = "queued"
    /\ \E enabled \in IssuanceStates, fail \in LookupFaults :
          ptask' = [ptask EXCEPT ![t] = ProgramExecution(ptask[t], enabled, fail)]
    /\ UNCHANGED <<ctask, user_exists, completed, certified, successPosted>>
    /\ UNCHANGED <<healthy, verifyVars, viewVars>>

\* Lines 191-205: the retry flag after one award. HttpNotFoundError is caught
\* by its own handler, which only logs; any other exception sets retry = True.
RetryFlag_AnyFailure(retry, result) == retry \/ result # "ok"
RetryFlag(retry, result) == retry \/ result = "error"

\* the award of the next program of the list has been attempted
Posted(task, result) ==
    [task EXCEPT !.ops = @ \cup {"post"},
                 !.posts = Append(@, Head(task.todo)),
                 !.results = Append(@, result),
                 !.todo = Tail(@),
                 !.retry = RetryFlag(@, result)]

\* Lines 192-214: one iteration of the award loop; after the last one the
\* task retries if any award failed and otherwise completes.
AfterAward_StopAtError(task, result) ==
    LET posted == Posted(task, result)
    IN  IF posted.retry THEN Retry(posted, "award")
        ELSE IF posted.todo # <<>> THEN posted
        ELSE Conclude(posted, "success")
AfterAward_AlwaysRetry(task, result) ==
    LET posted == Posted(task, result)
    IN  IF posted.todo # <<>> THEN posted
        ELSE Retry(posted, "award")
AfterAward(task, result) ==
    LET posted == Posted(task, result)
    IN  IF posted.todo # <<>> THEN posted
        ELSE IF posted.retry THEN Retry(posted, "award")
        ELSE Conclude(posted, "success")

\* the credentials service records a successful award
Awarded(programs, program_uuid, result) ==
    IF result = "ok" THEN programs \cup {program_uuid} ELSE programs

\* the answers to a POST: 2xx, HttpNotFoundError, any other exception; a
\* healthy credentials service raises nothing but HttpNotFoundError
PostAnswers == IF healthy THEN {"ok", "notfound"} ELSE {"ok", "notfound", "error"}

award_program_certificate(t) ==
    /\ ptask[t].pc = "posting"
    /\ \E result \in PostAnswers :
          /\ ptask' = [ptask EXCEPT ![t] = AfterAward(ptask[t], result)]
          /\ certified' = Awarded(certified, Head(ptask[t].todo), result)
          /\ successPosted' = Awarded(successPosted, Head(ptask[t].todo), result)
    /\ UNCHANGED <<ctask, user_exists, completed>>
    /\ UNCHANGED <<healthy, verifyVars, viewVars>>

----------------------------------------------------------------------------
(* award_course_certificates *)

\* award_course_certificates.delay(username, course_run_key)
apply_course_task ==
    /\ ctask.pc \in {"done", "failed"}
    /\ ctask' = [NewCourseTask EXCEPT !.pc = "queued"]
    /\ UNCHANGED <<ptask, user_exists, completed, certified, successPosted>>
    /\ UNCHANGED <<healthy, verifyVars, viewVars>>

NoCert == [mode |-> "none", valid |-> FALSE]
Certificates == {NoCert} \cup [mode : Modes, valid : BOOLEAN]

\* post_course_certificate: 'awarded' if certificate.is_valid() else 'revoked'
PostStatus_AlwaysAwarded(valid) == "awarded"
PostStatus(valid) == IF valid THEN "awarded" ELSE "revoked"

\* except GeneratedCertificate.DoesNotExist: ... return
OnMissingCertificate(task) == Conclude(task, "no_certificate")

\* except (CourseOverview.DoesNotExist, IOError): ... return
OnMissingOverview_Retry(task) == Retry(task, "exception")
OnMissingOverview(task) == Conclude(task, "no_overview")

CourseExecution(task, enabled, certificate, overview, viewable, fail) ==
    LET started == [task EXCEPT !.executions = @ + 1,
                                !.attempt = task.retries,
                                !.countdown = Countdown(task.retries),
                                !.enabled = enabled,
                                !.user_found = FALSE,
                                !.ops = {"config"},
                                !.mode = "na", !.valid = FALSE,
                                !.overview = "na", !.viewable = FALSE,
                                !.posts = <<>>]
        looked == [started EXCEPT !.ops = @ \cup {"user"}, !.user_found = user_exists]
        queried == [looked EXCEPT !.ops = @ \cup {"certificate"},
                                  !.mode = certificate.mode,
                                  !.valid = certificate.valid]
        loaded == [queried EXCEPT !.ops = @ \cup {"overview"}, !.overview = overview]
        checked == [loaded EXCEPT !.viewable = viewable]
        client == [checked EXCEPT !.ops = @ \cup {"client"}]
        posted == [client EXCEPT !.ops = @ \cup {"post"},
                                 !.posts = <<PostStatus(certificate.valid)>>]
    IN  IF ~enabled THEN OnIssuanceDisabled(started)
        ELSE IF ~user_exists THEN OnMissingUser(looked)
        ELSE IF certificate = NoCert THEN OnMissingCertificate(queried)
        ELSE IF certificate.mode \notin VERIFIED_CERTS_MODES
             THEN Conclude(queried, "not_verified")
        ELSE IF overview # "ok" THEN OnMissingOverview(loaded)
        ELSE IF ~viewable THEN Conclude(checked, "not_viewable")
        ELSE IF fail = "client" THEN OnException(client, "exception")
        ELSE IF fail = "post" THEN OnException(posted, "exception")
        ELSE Conclude(posted, "success")

award_course_certificates ==
    /\ ctask.pc = "queued"
    /\ \E enabled \in BOOLEAN, certificate \in Certificates,
          overview \in {"ok", "DoesNotExist", "IOError"}, viewable \in BOOLEAN,
          fail \in {"none", "client", "post"} :
          ctask' = CourseExecution(ctask, enabled, certificate, overview, viewable, fail)
    /\ UNCHANGED <<ptask, user_exists, completed, certified, successPosted>>
    /\ UNCHANGED <<healthy, verifyVars, viewVars>>

----------------------------------------------------------------------------
(* manual_verifications management command *)

Users == {"user1", "user2"}

\* The addresses the command may be given: one per user, and one of no user
MissingEmail == "nobody@example.com"
Emails == Users \cup {MissingEmail}

RECURSIVE SeqsUpTo(_, _)
SeqsUpTo(S, n) ==
    IF n = 0 THEN {<<>>}
    ELSE LET shorter == SeqsUpTo(S, n - 1)
         IN  shorter \cup {Append(q, x) : q \in {r \in shorter : Len(r) = n - 1}, x \in S}

\* --email-id has nargs='+': at least one address
EmailLists == SeqsUpTo(Emails, MaxEmails) \ {<<>>}

\* earliest_allowed_verification_date(): now - settings.VERIFY_STUDENT["DAYS_GOOD_FOR"]
earliest_allowed_verification_date(today) == today - DaysGoodFor

\* ManualVerification.objects.filter(user=user, status="approved",
\*                                   created_at__gte=earliest_allowed_verification_date())
PreviousVerifications_AnyUser(table, user, today) ==
    {v \in table : /\ v.status = "approved"
                   /\ v.created_at >= earliest_allowed_verification_date(today)}
PreviousVerifications(table, user, today) ==
    {v \in table : /\ v.user = user
                   /\ v.status = "approved"
                   /\ v.created_at >= earliest_allowed_verification_date(today)}

\* if not verifications:
MustCreate_Always(found) == TRUE
MustCreate(found) == found = {}

NextId(table) == Cardinality(table) + 1

\* ManualVerification.objects.create(user=user, status="approved", name=...)
Create_Unique(table, user, today) ==
    IF PreviousVerifications(table, user, today) # {} THEN table
    ELSE table \cup {[id |-> NextId(table), user |-> user, status |-> "approved",
                      created_at |-> today]}
Create(table, user, today) ==
    table \cup {[id |-> NextId(table), user |-> user, status |-> "approved",
                 created_at |-> today]}

\* today is the day the run began, clock the day it last computed the
\* earliest allowed date from
NewRun ==
    [pc |-> "idle", emails |-> <<>>, i |-> 1, user |-> "none", create |-> FALSE,
     today |-> 0, clock |-> 0, before |-> {}]

\* call_command('manual_verifications', '--email-id', ...)
call_command(r) ==
    /\ vrun[r].pc \in {"idle", "done", "error"}
    /\ \E email_ids \in EmailLists :
          vrun' = [vrun EXCEPT ![r] = [NewRun EXCEPT !.pc = "filter",
                                                     !.emails = email_ids,
                                                     !.today = now,
                                                     !.clock = now,
                                                     !.before = verifications]]
    /\ UNCHANGED <<verifications, now>>
    /\ UNCHANGED <<taskVars, viewVars>>

\* for email in email_ids: the next address, or the end of the command
NextEmail(run) ==
    [run EXCEPT !.pc = IF run.i = Len(run.emails) THEN "done" ELSE "filter",
                !.i = IF run.i = Len(run.emails) THEN @ ELSE @ + 1]

\* Lines 37-44: User.objects.get(email=email), and the queryset is built
\* with the earliest allowed date of this moment; an address of no user
\* raises User.DoesNotExist out of the command.
handle_filter(r) ==
    LET run == vrun[r]
        email == run.emails[run.i]
    IN  /\ run.pc = "filter"
        /\ vrun' = [vrun EXCEPT ![r] =
                IF email \notin Users
                THEN [run EXCEPT !.pc = "error"]
                ELSE [run EXCEPT !.pc = "query", !.user = email, !.clock = now]]
        /\ UNCHANGED <<verifications, now>>
        /\ UNCHANGED <<taskVars, viewVars>>

\* Line 47: if not verifications evaluates the queryset against the table
\* as it is now; when a verification is found the loop goes on.
handle_query(r) ==
    LET run == vrun[r]
        create == MustCreate(PreviousVerifications(verifications, run.user, run.clock))
        queried == [run EXCEPT !.create = create]
    IN  /\ run.pc = "query"
        /\ vrun' = [vrun EXCEPT ![r] =
                IF create THEN [queried EXCEPT !.pc = "create"]
                ELSE NextEmail(queried)]
        /\ UNCHANGED <<verifications, now>>
        /\ UNCHANGED <<taskVars, viewVars>>

\* Lines 48-52: the verification is created, created_at being the time of
\* the insert; then the next address
handle_create(r) ==
    LET run == vrun[r]
    IN  /\ run.pc = "create"
        /\ verifications' = Create(verifications, run.user, now)
        /\ vrun' = [vrun EXCEPT ![r] = NextEmail(run)]
        /\ UNCHANGED now
        /\ UNCHANGED <<taskVars, viewVars>>

\* A day passes, whatever the command is doing
Tick ==
    /\ now < MaxDay
    /\ now' = now + 1
    /\ UNCHANGED <<verifications, vrun>>
    /\ UNCHANGED <<taskVars, viewVars>>

----------------------------------------------------------------------------
(* The course in the modulestore *)

\* Python's None, for a date that is not set and for a statistic of no data
None == -1

\* A block of the course tree: a section (chapter), a subsection (sequential),
\* a unit (vertical) or a component
NewBlock(category, visibility, due) ==
    [category |-> category,
     visible_to_staff_only |-> visibility.visible_to_staff_only,
     hide_from_toc |-> visibility.hide_from_toc,
     due |-> due,
     children |-> <<>>]

Shown == [visible_to_staff_only |-> FALSE, hide_from_toc |-> FALSE]
StaffOnly == [visible_to_staff_only |-> TRUE, hide_from_toc |-> FALSE]
HiddenFromToc == [visible_to_staff_only |-> FALSE, hide_from_toc |-> TRUE]
Visibilities == {Shown, StaffOnly, HiddenFromToc}

DueDates == {None, 1, 2}
ComponentTypes == {"html", "problem"}

\* A course without sections; it starts on day 1 and may end on day 2
EmptyCourses ==
    [start_date_is_still_default : BOOLEAN, start : {1}, end : {None, 2},
     children : {<<>>}]

RECURSIVE NumBlocks(_)
NumBlocks(parent) ==
    Len(parent.children)
    + SumSeq([i \in DOMAIN parent.children |-> NumBlocks(parent.children[i])])

Last(s) == s[Len(s)]

\* Studio: a section is added at the end of the course
WithSection(c, block) == [c EXCEPT !.children = Append(@, block)]

\* Studio: a subsection is added at the end of the last section
WithSubsection(c, block) ==
    [c EXCEPT !.children[Len(c.children)].children = Append(@, block)]

\* Studio: a unit is added at the end of the last subsection
WithUnit(c, block) ==
    LET i == Len(c.children)
        j == Len(c.children[i].children)
    IN  [c EXCEPT !.children[i].children[j].children = Append(@, block)]

\* Studio: a component is added at the end of the last unit
WithComponent(c, block) ==
    LET i == Len(c.children)
        j == Len(c.children[i].children)
        k == Len(c.children[i].children[j].children)
    IN  [c EXCEPT !.children[i].children[j].children[k].children = Append(@, block)]

\* [x for parent in parents for x in parent.children]
RECURSIVE ChildrenOfAll(_)
ChildrenOfAll(parents) ==
    IF parents = <<>> THEN <<>>
    ELSE Head(parents).children \o ChildrenOfAll(Tail(parents))

----------------------------------------------------------------------------
(* CourseValidationView: the assignments group *)

\* _get_assignments(course): every child of every section, and those children
\* of visible sections that are not staff-only
_get_assignments(c) ==
    LET sections == c.children
        assignments == ChildrenOfAll(sections)
        visible_sections ==
            SelectSeq(sections, LAMBDA sec : ~sec.visible_to_staff_only /\ ~sec.hide_from_toc)
        assignments_in_visible_sections == ChildrenOfAll(visible_sections)
        visible_assignments ==
            SelectSeq(assignments_in_visible_sections, LAMBDA a : ~a.visible_to_staff_only)
    IN  [assignments |-> assignments, visible_assignments |-> visible_assignments]

\* return not course.start_date_is_still_default
_has_start_date_Always(c) == TRUE
_has_start_date(c) == ~c.start_date_is_still_default

_assignments_validation(c) ==
    LET got == _get_assignments(c)
        assignments_with_dates == SelectSeq(got.visible_assignments, LAMBDA a : a.due # None)
        num_with_dates == Len(assignments_with_dates)
        num_with_dates_after_start ==
            IF _has_start_date(c)
            THEN Len(SelectSeq(assignments_with_dates, LAMBDA a : a.due > c.start))
            ELSE 0
        num_with_dates_before_end ==
            IF c.end # None
            THEN Len(SelectSeq(assignments_with_dates, LAMBDA a : a.due < c.end))
            ELSE 0
    IN  [total_number |-> Len(got.assignments),
         total_visible |-> Len(got.visible_assignments),
         num_with_dates |-> num_with_dates,
         num_with_dates_after_start |-> num_with_dates_after_start,
         num_with_dates_before_end |-> num_with_dates_before_end]

----------------------------------------------------------------------------
(* CourseQualityView: the subsections group *)

\* return [] if not hasattr(parent, 'children') else parent.children
_get_children(parent) == parent.children

_get_all_children(parent) ==
    LET children == _get_children(parent)
        visible_children ==
            SelectSeq(children, LAMBDA b : ~b.visible_to_staff_only /\ ~b.hide_from_toc)
    IN  [children |-> children, visible_children |-> visible_children]

_get_visible_children(parent) == _get_all_children(parent).visible_children

_get_sections(c) == _get_all_children(c)

\* traverse_pre_order(unit, self._get_visible_children,
\*                    lambda b: len(self._get_children(b)) == 0):
\* the nodes reached from the unit through visible children, the unit itself
\* included, in pre-order; those without children are yielded.
RECURSIVE traverse_pre_order(_)
traverse_pre_order(start_node) ==
    LET below == _get_visible_children(start_node)
        yielded == IF Len(_get_children(start_node)) = 0 THEN <<start_node>> ELSE <<>>
        Rest[i \in 0..Len(below)] ==
            IF i = 0 THEN <<>> ELSE Rest[i - 1] \o traverse_pre_order(below[i])
    IN  yielded \o Rest[Len(below)]

_get_leaf_blocks(unit) == traverse_pre_order(unit)

\* unit_dict[unit.location] = dict(num_leaf_blocks=..., leaf_block_types=set(...))
UnitInfo(unit) ==
    LET leaf_blocks == _get_leaf_blocks(unit)
    IN  [num_leaf_blocks |-> Len(leaf_blocks),
         leaf_block_types |-> {leaf_blocks[i].category : i \in DOMAIN leaf_blocks}]

\* [x for parent in parents for x in self._get_visible_children(parent)]
RECURSIVE VisibleChildrenOfAll(_)
VisibleChildrenOfAll(parents) ==
    IF parents = <<>> THEN <<>>
    ELSE _get_visible_children(Head(parents)) \o VisibleChildrenOfAll(Tail(parents))

\* _get_subsections_and_units(course): for each visible subsection of a visible
\* section, the unit_dict of its visible units
_get_subsections_and_units(c) ==
    LET visible_sections == _get_sections(c).visible_children
        visible_subsections == VisibleChildrenOfAll(visible_sections)
    IN  [i \in DOMAIN visible_subsections |->
            LET visible_units == _get_visible_children(visible_subsections[i])
            IN  [k \in DOMAIN visible_units |-> UnitInfo(visible_units[k])]]

Min(S) == CHOOSE x \in S : \A y \in S : x <= y
Max(S) == CHOOSE x \in S : \A y \in S : x >= y

\* sorted(data), duplicates kept
RECURSIVE SortedList(_)
SortedList(data) ==
    IF data = <<>> THEN <<>>
    ELSE LET m == Min(SeqToSet(data))
             i == CHOOSE k \in DOMAIN data : data[k] = m
         IN  <<m>> \o SortedList(SubSeq(data, 1, i - 1) \o SubSeq(data, i + 1, Len(data)))

\* np.around(num / den): to the nearest integer, a half to the even one
Around(num, den) ==
    LET q == num \div den
        r == num % den
    IN  IF 2 * r < den THEN q
        ELSE IF 2 * r > den THEN q + 1
        ELSE IF q % 2 = 0 THEN q ELSE q + 1

Median2(data) ==
    LET ordered == SortedList(data)
        n == Len(ordered)
    IN  IF n % 2 = 1 THEN 2 * ordered[(n + 1) \div 2]
        ELSE ordered[n \div 2] + ordered[n \div 2 + 1]

Occurrences(data, x) == Cardinality({i \in DOMAIN data : data[i] = x})

\* stats.mode(data, axis=None)[0][0]: the smallest of the most frequent values
Mode(data) ==
    Min({x \in SeqToSet(data) :
            \A y \in SeqToSet(data) : Occurrences(data, x) >= Occurrences(data, y)})

_stats_dict(data) ==
    IF data = <<>>
    THEN [min |-> None, max |-> None, mean |-> None, median |-> None, mode |-> None]
    ELSE [min |-> Min(SeqToSet(data)),
          max |-> Max(SeqToSet(data)),
          mean |-> Around(SumSeq(data), Len(data)),
          median |-> Around(Median2(data), 2),
          mode |-> Mode(data)]

\* if unit_info['num_leaf_blocks'] > 1
HasSeveralLeafBlocks_Any(unit_info) == unit_info.num_leaf_blocks >= 1
HasSeveralLeafBlocks(unit_info) == unit_info.num_leaf_blocks > 1

\* len(set().union(*all_block_types))
NumBlockTypes(unit_dict) ==
    Cardinality(UNION {unit_dict[k].leaf_block_types :
                          k \in {u \in DOMAIN unit_dict : HasSeveralLeafBlocks(unit_dict[u])}})

_subsections_quality(c) ==
    LET subsection_unit_dict == _get_subsections_and_units(c)
        subsection_num_block_types ==
            [i \in DOMAIN subsection_unit_dict |-> NumBlockTypes(subsection_unit_dict[i])]
    IN  [total_number |-> Len(subsection_num_block_types),
         num_with_one_block_type |->
             Len(SelectSeq(subsection_num_block_types, LAMBDA n : n = 1)),
         num_block_types |-> _stats_dict(subsection_num_block_types)]

----------------------------------------------------------------------------
(* Course handlers: CourseValidationView.get, CourseQualityView.get and      *)
(* course_health_handler                                                     *)

Absent == "<absent>"
PyFalse == "<False>"
ParamValues == {Absent, "", "true", "false"}

ValidationGroups == <<"dates", "assignments", "grades", "certificates", "updates">>
QualityGroups == <<"sections", "subsections", "units", "videos">>

\* request.query_params.get(name, default)
QueryGet(params, name, default) ==
    IF params[name] = Absent THEN default ELSE params[name]

\* Python truth of a query value: False and the empty string are false
Truthy_ToBool(value) == value = "true"
Truthy(value) == value \notin {PyFalse, ""}

\* if not has_course_author_access(request.user, course_key):
Denied_Never(access) == FALSE
Denied(access) == ~access

\* self.make_error_response(status_code=status.HTTP_403_FORBIDDEN, ...,
\*                          error_code='user_mismatch')
make_error_response(status_code, error_code) ==
    [status |-> status_code, error_code |-> error_code, exception |-> "none",
     body |-> {}, values |-> <<>>]

\* response.update(assignments=self._assignments_validation(course)) and
\* response.update(subsections=self._subsections_quality(course))
GroupValue(c, group) ==
    IF group = "assignments" THEN _assignments_validation(c) ELSE _subsections_quality(c)

\* The groups whose query parameter, or else the all parameter, is truthy
Included(params, groups) ==
    LET default_request_value == QueryGet(params, "all", PyFalse)
    IN  SelectSeq(groups, LAMBDA g : Truthy(QueryGet(params, g, default_request_value)))

\* The body of get() after the access check, once the blocks it needs have
\* been read from the modulestore into c: each requested group is computed
\* from them.
GroupsResponse(params, groups, c) ==
    LET included == Included(params, groups)
        computed == SeqToSet(included) \cap {"assignments", "subsections"}
    IN  [response |-> [status |-> 200, error_code |-> "none", exception |-> "none",
                       body |-> {"is_self_paced"} \cup SeqToSet(included),
                       values |-> [g \in computed |-> GroupValue(c, g)]],
         trace |-> <<"modulestore.get_course">>
                   \o [i \in DOMAIN included |-> "modulestore.read:" \o included[i]]]

CourseValidationView_get_result(req, c) ==
    LET checked == <<"has_course_author_access">>
    IN  IF Denied(req.access)
        THEN [response |-> make_error_response(403, "user_mismatch"), trace |-> checked]
        ELSE LET served == GroupsResponse(req.params, ValidationGroups, c)
             IN  [response |-> served.response, trace |-> checked \o served.trace]

CourseQualityView_get_result(req, c) ==
    LET checked == <<"has_course_author_access">>
    IN  IF Denied(req.access)
        THEN [response |-> make_error_response(403, "user_mismatch"), trace |-> checked]
        ELSE LET served == GroupsResponse(req.params, QualityGroups, c)
             IN  [response |-> served.response, trace |-> checked \o served.trace]

course_health_handler_result(req) ==
    LET checked == <<"has_course_author_access">>
    IN  IF Denied(req.access)
        THEN [response |-> [status |-> 0, error_code |-> "none",
                            exception |-> "PermissionDenied", body |-> {},
                            values |-> <<>>],
              trace |-> checked]
        ELSE [response |-> [status |-> 200, error_code |-> "none", exception |-> "none",
                            body |-> {"language_code", "context_course"},
                            values |-> <<>>],
              trace |-> checked \o <<"modulestore.get_course">>]

----------------------------------------------------------------------------
(* The reads of the modulestore a view makes, one block at a time *)

\* A child whose usage key the view holds and which it has not read
NotRead == NewBlock("not read", StaffOnly, None)

\* store.get_course(course_key) and store.get_item(usage_key): the fields of
\* the block as it is now, and the usage keys of the children it has now
get_item_result(block) ==
    [block EXCEPT !.children = [i \in DOMAIN block.children |-> NotRead]]

\* A usage key is the position of the block in the course: <<i, j>> is the
\* j-th child of the i-th section, <<>> the course itself.
RECURSIVE BlockAt(_, _)
BlockAt(tree, usage_key) ==
    IF usage_key = <<>> THEN tree
    ELSE BlockAt(tree.children[Head(usage_key)], Tail(usage_key))

RECURSIVE WithBlock(_, _, _)
WithBlock(tree, usage_key, block) ==
    IF usage_key = <<>> THEN block
    ELSE [tree EXCEPT !.children[Head(usage_key)] =
                          WithBlock(@, Tail(usage_key), block)]

RECURSIVE Flatten(_)
Flatten(seqs) == IF seqs = <<>> THEN <<>> ELSE Head(seqs) \o Flatten(Tail(seqs))

\* [store.get_item(child_usage_key) for child_usage_key in parent.children]
ChildReads(seen, usage_key) ==
    [i \in DOMAIN BlockAt(seen, usage_key).children |->
        [op |-> "get_item", key |-> Append(usage_key, i)]]

IsVisibleChild(block) == ~block.visible_to_staff_only /\ ~block.hide_from_toc

\* What a view goes on to read once the blocks before a point of its code
\* have been read:
\*   assignments          the children of every section, then of the visible ones
\*   visible_assignments  the children of the visible sections
\*   visible_children     for each visible child of the block, that child's
\*                        children and then, in the same way, what is below it
Expand(seen, task) ==
    IF task.op = "assignments"
    THEN Flatten([i \in DOMAIN seen.children |-> ChildReads(seen, <<i>>)])
         \o <<[op |-> "visible_assignments", key |-> <<>>]>>
    ELSE IF task.op = "visible_assignments"
    THEN Flatten([i \in DOMAIN seen.children |->
                     IF IsVisibleChild(seen.children[i])
                     THEN ChildReads(seen, <<i>>) ELSE <<>>])
    ELSE LET parent == BlockAt(seen, task.key)
         IN  Flatten([i \in DOMAIN parent.children |->
                         IF IsVisibleChild(parent.children[i])
                         THEN ChildReads(seen, Append(task.key, i))
                              \o <<[op |-> "visible_children",
                                    key |-> Append(task.key, i)]>>
                         ELSE <<>>])

\* The reads still to make, up to the next call of the store
RECURSIVE Plan(_, _)
Plan(seen, queue) ==
    IF queue = <<>> THEN <<>>
    ELSE IF Head(queue).op \in {"get_item", "get_items"} THEN queue
    ELSE Plan(seen, Expand(seen, Head(queue)) \o Tail(queue))

\* _get_assignments(course): the sections, then their children
CourseValidationView_reads(req, seen) ==
    IF "assignments" \in SeqToSet(Included(req.params, ValidationGroups))
    THEN ChildReads(seen, <<>>) \o <<[op |-> "assignments", key |-> <<>>]>>
    ELSE <<>>

\* The store calls of the groups in the order get() computes them.
\* _sections_quality, _subsections_quality and _units_quality start from
\* _get_sections(course), which is @request_cached: the sections are read
\* once, by the first of the three that is included. _subsections_quality
\* and _units_quality go on with _get_subsections_and_units(course), also
\* @request_cached: what is below the visible sections is read once.
\* _videos_quality calls modulestore().get_items for the video blocks.
CourseQualityView_reads(req, seen) ==
    LET included == SeqToSet(Included(req.params, QualityGroups))
    IN  (IF included \cap {"sections", "subsections", "units"} # {}
         THEN ChildReads(seen, <<>>) ELSE <<>>)
        \o (IF included \cap {"subsections", "units"} # {}
            THEN <<[op |-> "visible_children", key |-> <<>>]>> ELSE <<>>)
        \o (IF "videos" \in included
            THEN <<[op |-> "get_items", key |-> <<>>]>> ELSE <<>>)

NoReads == [seen |-> [start_date_is_still_default |-> TRUE, start |-> 1,
                      end |-> None, children |-> <<>>],
            queue |-> <<>>]

NoRequest == [pc |-> "idle", view |-> "none", access |-> FALSE, params |-> <<>>]
NoResponse ==
    [status |-> 0, error_code |-> "none", exception |-> "none", body |-> {},
     values |-> <<>>]

ParamNames(view) ==
    IF view = "validation" THEN {"all"} \cup SeqToSet(ValidationGroups)
    ELSE IF view = "quality" THEN {"all"} \cup SeqToSet(QualityGroups)
    ELSE {}

\* A request of a logged-in user arrives for one of the three handlers
receive ==
    /\ request.pc = "idle"
    /\ \E view \in {"validation", "quality", "health"}, access \in BOOLEAN :
          \E params \in [ParamNames(view) -> ParamValues] :
              request' = [pc |-> "pending", view |-> view, access |-> access,
                          params |-> params]
    /\ response' = NoResponse
    /\ trace' = <<>>
    /\ handler' = NoReads
    /\ UNCHANGED <<course, taskVars, verifyVars>>

Serve(view, result) ==
    /\ request.pc = "pending"
    /\ request.view = view
    /\ request' = [request EXCEPT !.pc = "served"]
    /\ response' = result.response
    /\ trace' = result.trace
    /\ UNCHANGED <<course, handler, taskVars, verifyVars>>

course_health_handler == Serve("health", course_health_handler_result(request))

ViewReads(req, seen) ==
    IF req.view = "validation" THEN CourseValidationView_reads(req, seen)
    ELSE CourseQualityView_reads(req, seen)

ViewResult(req, seen) ==
    IF req.view = "validation" THEN CourseValidationView_get_result(req, seen)
    ELSE CourseQualityView_get_result(req, seen)

\* The view runs on from a read of the modulestore to its next read, or to
\* its response when nothing is left to read.
Proceed(seen, queue) ==
    /\ handler' = [seen |-> seen, queue |-> queue]
    /\ IF queue = <<>>
       THEN /\ request' = [request EXCEPT !.pc = "served"]
            /\ response' = ViewResult(request, seen).response
            /\ trace' = ViewResult(request, seen).trace
       ELSE /\ request' = [request EXCEPT !.pc = "reading"]
            /\ response' = NoResponse
            /\ trace' = <<"has_course_author_access", "modulestore.get_course">>
    /\ UNCHANGED <<course, taskVars, verifyVars>>

\* get(): the access check and, for a course author, store.get_course
Get(view) ==
    /\ request.pc = "pending"
    /\ request.view = view
    /\ IF Denied(request.access)
       THEN Proceed(handler.seen, <<>>)
       ELSE LET seen == get_item_result(course)
            IN  Proceed(seen, Plan(seen, ViewReads(request, seen)))

CourseValidationView_get == Get("validation")

CourseQualityView_get == Get("quality")

\* The view's next store.get_item(usage_key)
get_item ==
    /\ request.pc = "reading"
    /\ Head(handler.queue).op = "get_item"
    /\ LET usage_key == Head(handler.queue).key
           seen == WithBlock(handler.seen, usage_key,
                             get_item_result(BlockAt(course, usage_key)))
       IN  Proceed(seen, Plan(seen, Tail(handler.queue)))

\* The response has been sent; the next request can arrive
send_response ==
    /\ request.pc = "served"
    /\ request' = NoRequest
    /\ response' = NoResponse
    /\ trace' = <<>>
    /\ handler' = NoReads
    /\ UNCHANGED <<course, taskVars, verifyVars>>

\* modulestore().get_items(course.id, qualifiers={'category': 'video'}): the
\* video blocks are counted, no block of the outline is read
get_items ==
    /\ request.pc = "reading"
    /\ Head(handler.queue).op = "get_items"
    /\ Proceed(handler.seen, Plan(handler.seen, Tail(handler.queue)))

----------------------------------------------------------------------------
(* Authoring: the course grows before, while and after a view reads it *)

Author(limit, c) ==
    /\ NumBlocks(course) < limit
    /\ course' = c
    /\ UNCHANGED <<request, response, trace, handler>>
    /\ UNCHANGED <<taskVars, verifyVars>>

add_section(limit) ==
    \E visibility \in Visibilities :
        Author(limit, WithSection(course, NewBlock("chapter", visibility, None)))

add_subsection(limit, visibilities, dues) ==
    /\ course.children # <<>>
    /\ \E visibility \in visibilities, due \in dues :
          Author(limit, WithSubsection(course, NewBlock("sequential", visibility, due)))

add_unit(limit) ==
    /\ course.children # <<>>
    /\ Last(course.children).children # <<>>
    /\ \E visibility \in {Shown, StaffOnly} :
          Author(limit, WithUnit(course, NewBlock("vertical", visibility, None)))

add_component(limit) ==
    /\ course.children # <<>>
    /\ Last(course.children).children # <<>>
    /\ Last(Last(course.children).children).children # <<>>
    /\ \E type \in ComponentTypes, visibility \in {Shown, StaffOnly} :
          Author(limit, WithComponent(course, NewBlock(type, visibility, None)))

\* GET .../validation/{course_id}/?assignments=true and
\* GET .../quality/{course_id}/?subsections=true by a course author
GroupRequest(view, group) ==
    [pc |-> "pending", view |-> view, access |-> TRUE,
     params |-> [n \in ParamNames(view) |-> IF n = group THEN "true" ELSE Absent]]

----------------------------------------------------------------------------
(* Specifications *)

Runs == {1, 2}

TasksIdle ==
    /\ ptask = [t \in Slots |-> NewProgramTask]
    /\ ctask = NewCourseTask
    /\ user_exists = TRUE
    /\ completed = [s \in Sites |-> {}]
    /\ certified = {}
    /\ successPosted = {}
    /\ healthy = FALSE

VerifyIdle ==
    /\ verifications = {}
    /\ now = 0
    /\ vrun = [r \in Runs |-> NewRun]

\* a course without content, start date not set
NoContent ==
    [start_date_is_still_default |-> TRUE, start |-> 1, end |-> None, children |-> <<>>]

ViewsIdle ==
    /\ course = NoContent
    /\ request = NoRequest
    /\ response = NoResponse
    /\ trace = <<>>
    /\ handler = NoReads

\* A program task has just been submitted for a student with some completed and
\* some already certified programs, or for a username of no user.
InitProgram ==
    /\ ptask = [t \in Slots |-> IF t = 1 THEN [NewProgramTask EXCEPT !.pc = "queued"]
                                         ELSE NewProgramTask]
    /\ ctask = NewCourseTask
    /\ user_exists \in BOOLEAN
    /\ completed \in [Sites -> SUBSET Programs]
    /\ certified \in SUBSET Programs
    /\ user_exists = FALSE => /\ completed = [s \in Sites |-> {}]
                              /\ certified = {}
    /\ successPosted = {}
    /\ healthy = FALSE

\* A course task has just been submitted.
InitCourse ==
    /\ ptask = [t \in Slots |-> NewProgramTask]
    /\ ctask = [NewCourseTask EXCEPT !.pc = "queued"]
    /\ user_exists \in BOOLEAN
    /\ completed = [s \in Sites |-> {}]
    /\ certified = {}
    /\ successPosted = {}
    /\ healthy = FALSE

Init == (InitProgram \/ InitCourse) /\ VerifyIdle /\ ViewsIdle

Next ==
    \/ apply_program_task(1)
    \/ award_program_certificates(1)
    \/ award_program_certificate(1)
    \/ apply_course_task
    \/ award_course_certificates

Spec == Init /\ [][Next]_vars

\* The command is run by an administrator, one invocation at a time. Some users
\* may hold a verification that was denied.
InitVerify ==
    /\ TasksIdle
    /\ ViewsIdle
    /\ verifications \in SUBSET {[id |-> 1, user |-> "user1", status |-> "denied",
                                  created_at |-> 0]}
    /\ now = 0
    /\ vrun = [r \in Runs |-> NewRun]

NoRunActive == \A q \in Runs : vrun[q].pc \in {"idle", "done", "error"}

NextVerify ==
    \/ NoRunActive /\ call_command(1)
    \/ handle_filter(1)
    \/ handle_query(1)
    \/ handle_create(1)
    \/ Tick

\* The services recover. From then on a worker that keeps executing the
\* scheduled task (celery runs a retry once its countdown has elapsed) meets no
\* failure.
recover ==
    /\ ~healthy
    /\ healthy' = TRUE
    /\ UNCHANGED <<ptask, ctask, user_exists, completed, certified, successPosted>>
    /\ UNCHANGED <<verifyVars, viewVars>>

\* A program task has just been submitted for a student whose completed
\* programs are all of one site.
InitLive ==
    /\ InitProgram
    /\ completed["site2"] = {}
    /\ VerifyIdle
    /\ ViewsIdle

NextLive ==
    \/ apply_program_task(1)
    \/ award_program_certificates(1)
    \/ award_program_certificate(1)
    \/ recover

SpecLive ==
    /\ InitLive
    /\ [][NextLive]_vars
    /\ WF_vars(award_program_certificates(1))
    /\ WF_vars(award_program_certificate(1))

SpecVerify == InitVerify /\ [][NextVerify]_vars

InitViews == TasksIdle /\ VerifyIdle /\ ViewsIdle

NextViews ==
    \/ receive
    \/ CourseValidationView_get
    \/ CourseQualityView_get
    \/ course_health_handler
    \/ get_items
    \/ send_response

SpecViews == InitViews /\ [][NextViews]_vars

\* Two workers execute award_program_certificates for the same username, and
\* two administrators run manual_verifications for the same address; nothing
\* orders the steps of one against the steps of the other. The services are
\* up, so no execution is retried.
InitRace ==
    /\ ptask = [t \in Slots |-> [NewProgramTask EXCEPT !.pc = "queued"]]
    /\ ctask = NewCourseTask
    /\ user_exists = TRUE
    /\ completed \in [Sites -> SUBSET Programs]
    /\ certified \in SUBSET Programs
    /\ successPosted = {}
    /\ healthy = TRUE
    /\ verifications \in SUBSET {[id |-> 1, user |-> "user1", status |-> "denied",
                                  created_at |-> 0]}
    /\ now = 0
    /\ \E user \in Users :
          vrun = [r \in Runs |-> [NewRun EXCEPT !.pc = "filter", !.emails = <<user>>,
                                                !.today = now,
                                                !.before = verifications]]
    /\ ViewsIdle

NextRace ==
    \/ award_program_certificates(1)
    \/ award_program_certificates(2)
    \/ award_program_certificate(1)
    \/ award_program_certificate(2)
    \/ handle_filter(1)
    \/ handle_filter(2)
    \/ handle_query(1)
    \/ handle_query(2)
    \/ handle_create(1)
    \/ handle_create(2)

SpecRace == InitRace /\ [][NextRace]_vars

\* The assignments group is requested for a course of sections and subsections
InitValidation ==
    /\ TasksIdle
    /\ VerifyIdle
    /\ course \in EmptyCourses
    /\ request = GroupRequest("validation", "assignments")
    /\ response = NoResponse
    /\ trace = <<>>
    /\ handler = NoReads

NextValidation ==
    \/ add_section(MaxOutline)
    \/ add_subsection(MaxOutline, {Shown, StaffOnly}, DueDates)
    \/ CourseValidationView_get
    \/ get_item

SpecValidation == InitValidation /\ [][NextValidation]_vars

\* The subsections group is requested for a course of sections, subsections,
\* units and components
InitQuality ==
    /\ TasksIdle
    /\ VerifyIdle
    /\ course = NoContent
    /\ request = GroupRequest("quality", "subsections")
    /\ response = NoResponse
    /\ trace = <<>>
    /\ handler = NoReads

NextQuality ==
    \/ add_section(MaxBlocks)
    \/ add_subsection(MaxBlocks, Visibilities, {None})
    \/ add_unit(MaxBlocks)
    \/ add_component(MaxBlocks)
    \/ CourseQualityView_get
    \/ get_item

SpecQuality == InitQuality /\ [][NextQuality]_vars

----------------------------------------------------------------------------
(* Properties of the award tasks *)

\* The record describes an execution that has started
Executed(task) == task.executions >= 1

\* The execution ended without scheduling a retry and without any POST
ConcludedQuietly(task) ==
    /\ task.pc = "done"
    /\ task.retries = task.attempt
    /\ task.posts = <<>>
    /\ "post" \notin task.ops

DoublingDelays == <<1, 2, 4, 8, 16, 32, 64, 128, 256, 512, 1024>>

AllCompleted == UNION {completed[s] : s \in Sites}

NoDuplicates(s) == \A i, j \in DOMAIN s : s[i] = s[j] => i = j

RetriesBounded(task) ==
    /\ task.retries <= 11
    /\ Len(task.delays) = task.retries
    /\ task.executions <= 12
    /\ (Executed(task) /\ task.attempt = 11 /\ task.path # "none") => task.pc = "failed"
    /\ task.pc = "failed" => task.attempt = 11 /\ task.executions = 12
    /\ task.pc = "queued" => task.executions = task.retries

\* C1: a task is re-scheduled at most 11 times and executes at most 12 times;
\* the execution with retries = 11 that asks for a retry leaves the task failed,
\* with no further execution scheduled.
C1_RetriesBounded ==
    /\ \A t \in Slots : RetriesBounded(ptask[t])
    /\ RetriesBounded(ctask)

C1_Witness ==
    /\ ptask[1].pc = "failed"
    /\ ptask[1].executions = 12
    /\ ptask[1].retries = 11
    /\ ptask[1].path = "award"

ExponentialBackoff(task) ==
    /\ task.delays = SubSeq(DoublingDelays, 1, task.retries)
    /\ Executed(task) => task.countdown = Pow2(task.attempt)
    /\ SumSeq(task.delays) <= 2047
    /\ task.retries = 11 => SumSeq(task.delays) = 2047

\* C2: the retry requested by the execution with retry counter k is delayed by
\* 2^k seconds on every failure path, so the delays are 1, 2, 4, ..., 1024 and
\* add up to 2047 seconds over the 11 retries.
C2_ExponentialBackoff ==
    /\ \A t \in Slots : ExponentialBackoff(ptask[t])
    /\ ExponentialBackoff(ctask)

C2_Witness ==
    /\ ctask.pc = "failed"
    /\ ctask.path = "exception"
    /\ ctask.delays = DoublingDelays
    /\ SumSeq(ctask.delays) = 2047

\* C3 as stated: every execution for a username of no user ends without a
\* retry and without a POST.
C3_MissingUserNeverRetries ==
    /\ \A t \in Slots :
          (Executed(ptask[t]) /\ ~user_exists) => ConcludedQuietly(ptask[t])
    /\ (Executed(ctask) /\ ~user_exists) => ConcludedQuietly(ctask)

MissingUserConcludes(task) ==
    (Executed(task) /\ task.enabled /\ ~user_exists) =>
        /\ ConcludedQuietly(task)
        /\ task.outcome = "no_user"
        /\ task.ops = {"config", "user"}

\* C3 amended: every execution that finds issuance enabled, for a username of
\* no user, ends without a retry and without a POST.
C3_MissingUserConcludes ==
    /\ \A t \in Slots : MissingUserConcludes(ptask[t])
    /\ MissingUserConcludes(ctask)

C3_Witness ==
    /\ ~user_exists
    /\ ptask[1].pc = "done"
    /\ ptask[1].enabled
    /\ ptask[1].attempt >= 1

\* C4: when award_course_certificates finds no eligible certificate, or the
\* course overview cannot be loaded (DoesNotExist or IOError), the task ends
\* without a retry and without a POST.
C4_MissingCourseDataConcludes ==
    /\ (Executed(ctask) /\ "certificate" \in ctask.ops /\ ctask.mode = "none")
          => ConcludedQuietly(ctask)
    /\ (Executed(ctask) /\ "overview" \in ctask.ops
            /\ ctask.overview \in {"DoesNotExist", "IOError"})
          => ConcludedQuietly(ctask)

C4_Witness ==
    /\ ctask.pc = "done"
    /\ "overview" \in ctask.ops
    /\ ctask.overview = "IOError"
    /\ ctask.attempt >= 1

\* The credentials service reports every successfully POSTed program
ServiceReportsAwards == successPosted \subseteq certified

NeverPostedAgain(task) == SeqToSet(task.posts) \cap task.prior = {}

\* C5 as stated: a program whose award POST succeeded in an earlier execution
\* is not POSTed again, and every execution for a user whose completed programs
\* are all certified makes no POST and requests no retry.
C5_IdempotentAlways ==
    ServiceReportsAwards =>
        \A t \in Slots :
            /\ NeverPostedAgain(ptask[t])
            /\ (/\ Executed(ptask[t])
                /\ user_exists
                /\ AllCompleted \subseteq ptask[t].certified_at_start)
                  => ConcludedQuietly(ptask[t])

\* C5 amended: a program whose award POST succeeded in an earlier execution is
\* not POSTed again, and an execution that finds issuance enabled and whose
\* lookups do not fail, for a user whose completed programs are all certified,
\* makes no POST and requests no retry.
C5_Idempotent ==
    ServiceReportsAwards =>
        \A t \in Slots :
            /\ NeverPostedAgain(ptask[t])
            /\ (/\ Executed(ptask[t])
                /\ user_exists
                /\ ptask[t].enabled
                /\ ptask[t].path # "lookup"
                /\ AllCompleted \subseteq ptask[t].certified_at_start)
                  => ConcludedQuietly(ptask[t])

C5_Witness ==
    /\ ptask[1].pc = "done"
    /\ ptask[1].enabled
    /\ ptask[1].prior # {}
    /\ ptask[1].prior = AllCompleted
    /\ AllCompleted \subseteq ptask[1].certified_at_start
    /\ ptask[1].posts = <<>>

\* C6: an execution POSTs only program uuids that are completed on some site
\* and were not reported as certified at its start, each at most once.
C6_EligibleOnly ==
    \A t \in Slots :
        /\ SeqToSet(ptask[t].posts) \subseteq AllCompleted \ ptask[t].existing
        /\ SeqToSet(ptask[t].todo) \subseteq AllCompleted \ ptask[t].existing
        /\ NoDuplicates(ptask[t].posts \o ptask[t].todo)

C6_Witness ==
    /\ ptask[1].pc = "done"
    /\ ptask[1].posts # <<>>
    /\ \E p \in SeqToSet(ptask[1].posts) : \A s \in Sites : p \in completed[s]
    /\ ptask[1].existing \cap AllCompleted # {}

IssuanceDisabledRetries(task) ==
    (Executed(task) /\ ~task.enabled) =>
        /\ task.ops = {"config"}
        /\ task.posts = <<>>
        /\ task.path = "disabled"
        /\ task.pc \in {"queued", "failed"}
        /\ task.pc = "failed" <=> task.attempt = 11
        /\ task.pc = "queued" =>
              /\ task.retries = task.attempt + 1
              /\ task.delays[task.retries] = DoublingDelays[task.attempt + 1]

\* C10: an execution that finds learner issuance disabled asks for a retry
\* (delay 2^retries, at most 11 retries) before it looks up the user, queries
\* programs or certificates, or sends a POST.
C10_IssuanceDisabledRetries ==
    /\ \A t \in Slots : IssuanceDisabledRetries(ptask[t])
    /\ IssuanceDisabledRetries(ctask)

C10_Witness ==
    /\ ~user_exists
    /\ ~ptask[1].enabled
    /\ ptask[1].pc = "queued"
    /\ ptask[1].retries = 3

----------------------------------------------------------------------------
(* The award loop *)

Failures(task) == {i \in DOMAIN task.results : task.results[i] = "error"}

AwardLoopCompletes(task) ==
    /\ task.posts \o task.todo = task.planned
    /\ Len(task.results) = Len(task.posts)
    /\ task.pc = "posting" => task.todo # <<>> /\ task.retries = task.attempt
    /\ task.path = "award" =>
          /\ task.posts = task.planned
          /\ Failures(task) # {}
    /\ (task.pc # "posting" /\ Failures(task) # {}) =>
          /\ task.path = "award"
          /\ task.pc \in {"queued", "failed"}
          /\ task.pc = "queued" => task.retries = task.attempt + 1

\* C11: within one execution the POSTs follow the new-program list, one per
\* program and in its order, whatever the earlier POSTs answered; a retry for
\* a failed award is requested only once every program of the list has been
\* attempted, and is requested then if any POST failed with an error other
\* than HTTP 404.
C11_AwardLoopCompletes ==
    \A t \in Slots : AwardLoopCompletes(ptask[t])

\* the first POST failed, the second was still sent, then the task was retried
C11_Witness ==
    /\ ptask[1].pc = "queued"
    /\ ptask[1].path = "award"
    /\ ptask[1].planned = <<1, 2>>
    /\ ptask[1].posts = <<1, 2>>
    /\ ptask[1].results = <<"error", "ok">>

NotFoundTolerated(task) ==
    (/\ task.pc # "posting"
     /\ task.posts # <<>>
     /\ SeqToSet(task.results) \subseteq {"ok", "notfound"})
    => /\ task.pc = "done"
       /\ task.outcome = "success"
       /\ task.retries = task.attempt
       /\ task.posts = task.planned

\* C12: an execution in which every POST either succeeds or is answered with
\* HTTP 404 completes successfully and requests no retry.
C12_NotFoundTolerated ==
    \A t \in Slots : NotFoundTolerated(ptask[t])

\* both programs were answered, one of them with 404, and the task is done
C12_Witness ==
    /\ ptask[1].pc = "done"
    /\ ptask[1].outcome = "success"
    /\ ptask[1].results = <<"notfound", "ok">>
    /\ ptask[1].retries = ptask[1].attempt

AnsweredNotFound(task, p) ==
    \E i \in DOMAIN task.posts : task.posts[i] = p /\ task.results[i] = "notfound"

\* every program completed and not certified when the execution began has had
\* a successful POST, or was answered with 404 in this execution
AllAwarded(task) ==
    \A p \in AllCompleted \ task.certified_at_start :
        p \in successPosted \/ AnsweredNotFound(task, p)

\* C13: once issuance is enabled and the services have stopped failing while
\* an execution for an existing user is still scheduled (the retry bound is not
\* exhausted), the task eventually finishes without a further retry, and every
\* program that was completed and not yet certified, other than those answered
\* with 404, has had a successful award POST.
C13_EventuallyAwarded ==
    (healthy /\ user_exists /\ ptask[1].pc = "queued")
        ~> (ptask[1].pc = "done" /\ ptask[1].retries = ptask[1].attempt
            /\ AllAwarded(ptask[1]))

\* after earlier executions were retried, a healthy execution awarded a program
C13_Witness ==
    /\ healthy
    /\ user_exists
    /\ ptask[1].pc = "done"
    /\ ptask[1].attempt >= 2
    /\ ptask[1].planned = <<1, 2>>
    /\ ptask[1].results = <<"ok", "notfound">>
    /\ AllAwarded(ptask[1])

\* The execution ended without a retry, without reading the existing
\* credentials, without an API client and without a POST
EndedBeforeCredentials(task) ==
    /\ task.pc = "done"
    /\ task.retries = task.attempt
    /\ task.ops \cap {"certified", "client", "post"} = {}
    /\ task.posts = <<>>

\* C14 as stated: every execution for a user with no completed program on any
\* site ends without a retry, without the credentials query, without a client
\* and without a POST.
C14_NoProgramsAlwaysQuiet ==
    \A t \in Slots :
        (Executed(ptask[t]) /\ user_exists /\ AllCompleted = {})
            => EndedBeforeCredentials(ptask[t])

NoProgramsConcludes(task) ==
    (Executed(task) /\ task.enabled /\ user_exists /\ task.path # "lookup"
        /\ AllCompleted = {})
    => /\ EndedBeforeCredentials(task)
       /\ task.outcome = "no_programs"
       /\ task.ops = {"config", "user", "completed"}

\* C14 amended: every execution that finds issuance enabled and whose lookups
\* of completed programs raise nothing and report no program on any site ends
\* without a retry, without the credentials query, without a client and
\* without a POST.
C14_NoProgramsConcludes ==
    \A t \in Slots : NoProgramsConcludes(ptask[t])

\* after two retries an execution found issuance enabled and nothing completed
C14_Witness ==
    /\ user_exists
    /\ AllCompleted = {}
    /\ ptask[1].pc = "done"
    /\ ptask[1].outcome = "no_programs"
    /\ ptask[1].attempt = 2

----------------------------------------------------------------------------
(* The course certificate POST *)

CoursePostGuarded(task) ==
    /\ Len(task.posts) <= 1
    /\ "post" \in task.ops <=> task.posts # <<>>
    /\ task.posts # <<>> =>
          /\ task.enabled
          /\ task.user_found /\ user_exists
          /\ task.mode \in VERIFIED_CERTS_MODES
          /\ task.overview = "ok"
          /\ task.viewable
          /\ task.posts[1] = "awarded" <=> task.valid
          /\ task.posts[1] = "revoked" <=> ~task.valid
    /\ (Executed(task) /\ task.mode \in Modes \ VERIFIED_CERTS_MODES)
          => ConcludedQuietly(task)
    /\ (Executed(task) /\ task.overview = "ok" /\ ~task.viewable)
          => ConcludedQuietly(task)

\* C15: an execution of award_course_certificates sends at most one POST, and
\* sends it only if issuance is enabled, the user exists, an eligible
\* certificate of a verified mode was found and the certificates of the course
\* are viewable; its status is 'awarded' exactly when the certificate is valid
\* and 'revoked' otherwise. An execution that finds a certificate of another
\* mode, or certificates that are not viewable, ends without a POST and
\* without a retry.
C15_CoursePostGuarded == CoursePostGuarded(ctask)

\* an invalid certificate of a verified mode was posted as revoked
C15_Witness ==
    /\ ctask.pc = "done"
    /\ ctask.outcome = "success"
    /\ ctask.mode = "credit"
    /\ ~ctask.valid
    /\ ctask.posts = <<"revoked">>

----------------------------------------------------------------------------
(* Properties of the manual_verifications command *)

\* The approved verifications of a user that have not expired on a day
Valid(table, user, day) ==
    {v \in table : v.user = user /\ v.status = "approved"
                   /\ v.created_at >= earliest_allowed_verification_date(day)}

Approved(table) == {v \in table : v.status = "approved"}

\* C7: the command creates nothing for a user who holds an approved
\* verification created on or after the earliest allowed date it computes:
\* as long as such a verification of before the run has not expired on the
\* day the run last read, the user's verifications are the same records as
\* before the run, and so are the approved non-expired ones.
C7_NoNewVerification ==
    \A r \in Runs :
        vrun[r].pc # "idle" =>
            \A u \in Users :
                Valid(vrun[r].before, u, vrun[r].clock) # {} =>
                    /\ Valid(verifications, u, vrun[r].clock)
                          = Valid(vrun[r].before, u, vrun[r].clock)
                    /\ {v \in verifications : v.user = u}
                          = {v \in vrun[r].before : v.user = u}

\* the command was run again for user1 a day before the verification of the
\* first run expires, and the day changed before it computed the date
C7_Witness ==
    /\ vrun[1].pc = "done"
    /\ vrun[1].emails = <<"user1">>
    /\ vrun[1].clock > vrun[1].today
    /\ Valid(vrun[1].before, "user1", vrun[1].clock) # {}
    /\ ~vrun[1].create

Listed(run) == SeqToSet(run.emails)

CreatedFor(run, u) == {v \in verifications \ run.before : v.user = u}

\* C8 as stated: a completed run has created exactly one approved verification
\* for each distinct listed user without an approved non-expired one
\* beforehand, and none for a user not listed; from no approved verifications
\* it leaves one per listed user.
C8_OnePerListedUser ==
    \A r \in Runs :
        vrun[r].pc = "done" =>
            /\ \A u \in Users :
                  /\ (u \in Listed(vrun[r])
                      /\ Valid(vrun[r].before, u, vrun[r].today) = {})
                        => Cardinality(CreatedFor(vrun[r], u)) = 1
                  /\ u \notin Listed(vrun[r])
                        => CreatedFor(vrun[r], u) = {}
            /\ Approved(vrun[r].before) = {} =>
                  Cardinality(Approved(verifications)) = Cardinality(Listed(vrun[r]))

\* the last date of the run was computed no more than DAYS_GOOD_FOR after
\* the run began: nothing that was valid or created since then had expired
\* at any of its checks
NoExpiryDuring(run) == run.clock <= run.today + DaysGoodFor

\* C8, amended: a completed run has created at least one approved
\* verification for each distinct listed user without an approved non-expired
\* one beforehand and none for a user not listed, each created on a day of
\* the run; when the clock has not advanced by more than DAYS_GOOD_FOR
\* between the start of the run and its last check, it has created exactly
\* one for each such user, also when the address is listed more than once,
\* and from no approved verifications it leaves one per listed user.
C8_OnePerListedUserWhileValid ==
    \A r \in Runs :
        vrun[r].pc = "done" =>
            /\ \A u \in Users :
                  /\ (u \in Listed(vrun[r])
                      /\ Valid(vrun[r].before, u, vrun[r].today) = {})
                        => /\ Cardinality(CreatedFor(vrun[r], u)) >= 1
                           /\ NoExpiryDuring(vrun[r])
                                 => Cardinality(CreatedFor(vrun[r], u)) = 1
                  /\ u \notin Listed(vrun[r])
                        => CreatedFor(vrun[r], u) = {}
                  /\ \A v \in CreatedFor(vrun[r], u) :
                        /\ v.status = "approved"
                        /\ v.created_at >= vrun[r].today
                        /\ v.created_at <= now
            /\ (Approved(vrun[r].before) = {} /\ NoExpiryDuring(vrun[r])) =>
                  Cardinality(Approved(verifications)) = Cardinality(Listed(vrun[r]))

\* user1 is listed twice and the day changes during the run, within the
\* validity of the verification created at the first address
C8_Witness ==
    /\ vrun[1].pc = "done"
    /\ vrun[1].emails = <<"user1", "user2", "user1">>
    /\ vrun[1].clock > vrun[1].today
    /\ NoExpiryDuring(vrun[1])
    /\ Approved(vrun[1].before) = {}
    /\ Cardinality(Approved(verifications)) = 2

----------------------------------------------------------------------------
(* Properties of the course handlers *)

IsStoreRead(entry) == entry # "has_course_author_access"

\* C9: without course-author access the API views answer 403 'user_mismatch'
\* and course_health_handler raises PermissionDenied; the access check comes
\* before any modulestore read, so nothing is read or returned.
C9_AuthorGate ==
    request.pc = "served" =>
        /\ trace # <<>>
        /\ trace[1] = "has_course_author_access"
        /\ ~request.access =>
              /\ \A i \in DOMAIN trace : ~IsStoreRead(trace[i])
              /\ response.body = {}
              /\ request.view \in {"validation", "quality"} =>
                    response.status = 403 /\ response.error_code = "user_mismatch"
              /\ request.view = "health" => response.exception = "PermissionDenied"

C9_Witness ==
    /\ request.pc = "served"
    /\ ~request.access
    /\ request.view = "quality"
    /\ request.params["all"] = "true"
    /\ response.status = 403

----------------------------------------------------------------------------
(* Selection of the response groups *)

\* the groups of the view that served the request
GroupsOf(view) ==
    IF view = "validation" THEN SeqToSet(ValidationGroups) ELSE SeqToSet(QualityGroups)

\* a parameter is requested when the query gives it a non-empty value
Requested(params, name) == params[name] \notin {Absent, ""}

\* a data response of one of the two API views
GroupsServed ==
    /\ request.pc = "served"
    /\ request.view \in {"validation", "quality"}
    /\ response.status = 200

SelectedByParameters ==
    LET params == request.params
        groups == GroupsOf(request.view)
    IN  /\ "is_self_paced" \in response.body
        /\ response.body \subseteq {"is_self_paced"} \cup groups
        /\ \A g \in groups :
              g \in response.body <=>
                  \/ Requested(params, g)
                  \/ params[g] = Absent /\ Requested(params, "all")
        /\ (\A n \in DOMAIN params : params[n] = Absent)
              => response.body = {"is_self_paced"}

\* C16 as stated: the data response contains is_self_paced; a group is in it
\* exactly when its own parameter is requested or, its own parameter being
\* absent, 'all' is requested; with no parameter only is_self_paced is
\* returned, and with 'all' requested every group is included.
C16_AllIncludesEveryGroup ==
    GroupsServed =>
        /\ SelectedByParameters
        /\ Requested(request.params, "all")
              => GroupsOf(request.view) \subseteq response.body

\* C16 amended: as above, but with 'all' requested the groups included are
\* those whose own parameter is absent or has a non-empty value.
C16_SelectedByParameters ==
    GroupsServed =>
        /\ SelectedByParameters
        /\ Requested(request.params, "all")
              => \A g \in GroupsOf(request.view) :
                    g \in response.body <=> request.params[g] # ""

\* ?all=true&dates=&grades=false : every group but dates is returned
C16_Witness ==
    /\ GroupsServed
    /\ request.view = "validation"
    /\ request.params["all"] = "true"
    /\ request.params["dates"] = ""
    /\ request.params["grades"] = "false"
    /\ request.params["updates"] = Absent
    /\ response.body = {"is_self_paced", "assignments", "grades", "certificates", "updates"}

----------------------------------------------------------------------------
(* The assignment counts of CourseValidationView *)

AssignmentsServed ==
    /\ request.pc = "served"
    /\ request.view = "validation"
    /\ response.status = 200
    /\ "assignments" \in response.body

\* the places of the course tree that hold a child of a section
AssignmentSlots(c) ==
    UNION {{<<i, j>> : j \in DOMAIN c.children[i].children} : i \in DOMAIN c.children}

\* not staff-only, in a section that is neither staff-only nor hidden
MayCountAsVisible(c, slot) ==
    LET section == c.children[slot[1]]
        assignment == section.children[slot[2]]
    IN  /\ ~assignment.visible_to_staff_only
        /\ ~section.visible_to_staff_only
        /\ ~section.hide_from_toc

\* C17: in the assignments group num_with_dates_after_start and
\* num_with_dates_before_end are at most num_with_dates, which is at most
\* total_visible, which is at most total_number; num_with_dates_after_start
\* is 0 when the start date is still the default and num_with_dates_before_end
\* is 0 when the course has no end date; only assignments that are not
\* staff-only, in sections neither staff-only nor hidden from the table of
\* contents, are counted as visible.
C17_AssignmentCounts ==
    AssignmentsServed =>
        LET counts == response.values["assignments"]
        IN  /\ counts.num_with_dates_after_start <= counts.num_with_dates
            /\ counts.num_with_dates_before_end <= counts.num_with_dates
            /\ counts.num_with_dates <= counts.total_visible
            /\ counts.total_visible <= counts.total_number
            /\ counts.num_with_dates_after_start >= 0
            /\ counts.num_with_dates_before_end >= 0
            /\ handler.seen.start_date_is_still_default => counts.num_with_dates_after_start = 0
            /\ handler.seen.end = None => counts.num_with_dates_before_end = 0
            /\ counts.total_visible <=
                  Cardinality({slot \in AssignmentSlots(handler.seen) :
                                  MayCountAsVisible(handler.seen, slot)})

\* three assignments, one of them staff-only, the others due on the start day
\* and on the end day
C17_Witness ==
    /\ AssignmentsServed
    /\ ~handler.seen.start_date_is_still_default
    /\ handler.seen.end = 2
    /\ response.values["assignments"] =
          [total_number |-> 3, total_visible |-> 2, num_with_dates |-> 2,
           num_with_dates_after_start |-> 1, num_with_dates_before_end |-> 1]

----------------------------------------------------------------------------
(* The subsections group of CourseQualityView *)

SubsectionsServed ==
    /\ request.pc = "served"
    /\ request.view = "quality"
    /\ response.status = 200
    /\ "subsections" \in response.body

IsShown(block) == ~block.visible_to_staff_only /\ ~block.hide_from_toc

\* the places of the visible subsections of visible sections
VisibleSubsectionSlots(c) ==
    UNION {{<<i, j>> : j \in {k \in DOMAIN c.children[i].children :
                                  IsShown(c.children[i].children[k])}} :
              i \in {k \in DOMAIN c.children : IsShown(c.children[k])}}

\* the visible components of a unit; a unit without children is its own leaf
ShownComponents(unit) == {k \in DOMAIN unit.children : IsShown(unit.children[k])}

NumLeaves(unit) ==
    IF unit.children = <<>> THEN 1 ELSE Cardinality(ShownComponents(unit))

LeafTypes(unit) ==
    IF unit.children = <<>> THEN {unit.category}
    ELSE {unit.children[k].category : k \in ShownComponents(unit)}

\* the distinct leaf block types over the visible units of the subsection
\* that have more than one leaf block
BlockTypesAt(c, slot) ==
    LET subsection == c.children[slot[1]].children[slot[2]]
    IN  UNION {LeafTypes(subsection.children[k]) :
                  k \in {u \in DOMAIN subsection.children :
                            /\ IsShown(subsection.children[u])
                            /\ NumLeaves(subsection.children[u]) > 1}}

StatFields == {"min", "max", "mean", "median", "mode"}

\* C18: the subsections group counts the visible subsections of visible
\* sections; the number of block types of each is the number of distinct leaf
\* block types over its visible units with more than one leaf block;
\* num_with_one_block_type is the number of those subsections with exactly
\* one type and is at most total_number; the fields of the statistics dict
\* are all None when there is no such subsection and none is None otherwise.
C18_SubsectionBlockTypes ==
    SubsectionsServed =>
        LET quality == response.values["subsections"]
            slots == VisibleSubsectionSlots(handler.seen)
            numbers == {Cardinality(BlockTypesAt(handler.seen, slot)) : slot \in slots}
        IN  /\ quality.total_number = Cardinality(slots)
            /\ quality.num_with_one_block_type =
                  Cardinality({slot \in slots : Cardinality(BlockTypesAt(handler.seen, slot)) = 1})
            /\ quality.num_with_one_block_type <= quality.total_number
            /\ slots = {} =>
                  \A f \in StatFields : quality.num_block_types[f] = None
            /\ slots # {} =>
                  /\ \A f \in StatFields : quality.num_block_types[f] # None
                  /\ quality.num_block_types.min = Min(numbers)
                  /\ quality.num_block_types.max = Max(numbers)

\* a subsection whose unit holds an html and a problem component
C18_Witness ==
    /\ SubsectionsServed
    /\ NumBlocks(handler.seen) = 5
    /\ response.values["subsections"].total_number = 1
    /\ response.values["subsections"].num_with_one_block_type = 0
    /\ response.values["subsections"].num_block_types =
          [min |-> 2, max |-> 2, mean |-> 2, median |-> 2, mode |-> 2]

----------------------------------------------------------------------------
(* Concurrent executions *)

\* the task has read the certified programs and computed its list
ListComputed(task) == task.pc \in {"posting", "done"} /\ "client" \in task.ops

\* The task awards the programs missing from the list it read, whatever has
\* been certified since
AwardsWhatItRead(task) ==
    ListComputed(task) =>
        /\ task.planned = sorted(AllCompleted \ task.existing)
        /\ task.posts \o task.todo = task.planned

\* the approved verifications of the user created since the runs began
CreatedSince(table, user) == {v \in verifications \ table : v.user = user}

\* the runs that found no valid verification of the user and went on to create
Creators(user) ==
    {r \in Runs : vrun[r].pc = "done" /\ vrun[r].user = user /\ vrun[r].create}

\* C19: nothing ties the read of the certified programs to the award POSTs,
\* nor the filter of manual_verifications to its create. An execution POSTs
\* every program missing from the list it read, also one that a concurrent
\* execution has certified in between, and every run whose filter found no
\* verification creates one, also when a concurrent run has created one in
\* between: two concurrent executions can both POST the same program and two
\* concurrent runs can both create a verification.
C19_ReadAndWriteNotAtomic ==
    /\ \A t \in Slots : AwardsWhatItRead(ptask[t])
    /\ \A user \in Users :
          Cardinality(CreatedSince(vrun[1].before, user)) = Cardinality(Creators(user))

\* both executions computed the same list and both awarded program 1; both
\* runs found no verification and each created one
C19_Witness ==
    /\ ptask[1].pc = "done" /\ ptask[2].pc = "done"
    /\ ptask[1].planned = ptask[2].planned
    /\ ptask[1].posts = <<1, 2>> /\ ptask[2].posts = <<1, 2>>
    /\ ptask[1].results[1] = "ok" /\ ptask[2].results[1] = "ok"
    /\ vrun[1].pc = "done" /\ vrun[2].pc = "done"
    /\ vrun[1].user = vrun[2].user
    /\ vrun[1].create /\ vrun[2].create
    /\ Cardinality(Valid(verifications, vrun[1].user, now)) = 2

====
